---- MODULE Spec2Model ----
(***************************************************************************)
(* Common::ParamPackage (src/common/param_package.cpp): a string-keyed,    *)
(* string-valued container with a flat text serialization.  Strings are    *)
(* modelled as sequences of one-character strings, so that escaping,       *)
(* splitting and the bracket regex act character by character as the code  *)
(* does.                                                                   *)
(***************************************************************************)
EXTENDS Integers, Sequences, FiniteSets, TLC

VARIABLES data, ret, written, input

vars == <<data, ret, written, input>>

(* ------------------------------------------------------------------ *)
(* Bounds of the model.                                                *)
(* ------------------------------------------------------------------ *)

\* longest text enumerated exhaustively over Alphabet
MaxLen == 3
\* most pairs joined into one composed serialized text
MaxPairs == 3
\* longest list handed to a list-valued Set overload
MaxItems == 2

(* ------------------------------------------------------------------ *)
(* Characters and the constants of the format.                         *)
(* ------------------------------------------------------------------ *)

KEY_VALUE_SEPARATOR == ":"
PARAM_SEPARATOR == ","
LIST_SEPARATOR == "|"
ESCAPE_CHARACTER == "$"
KEY_VALUE_SEPARATOR_ESCAPE == <<"$", "0">>
PARAM_SEPARATOR_ESCAPE == <<"$", "1">>
ESCAPE_CHARACTER_ESCAPE == <<"$", "2">>
EMPTY_PLACEHOLDER == <<"[", "e", "m", "p", "t", "y", "]">>

\* the terminating byte of a std::string buffer
NUL == "NUL"

Digits == {"0", "1", "2", "3", "4", "5", "6", "7", "8", "9"}

DigitVal(c) ==
    CASE c = "0" -> 0 [] c = "1" -> 1 [] c = "2" -> 2 [] c = "3" -> 3
      [] c = "4" -> 4 [] c = "5" -> 5 [] c = "6" -> 6 [] c = "7" -> 7
      [] c = "8" -> 8 [] c = "9" -> 9

DigitChar(n) ==
    CASE n = 0 -> "0" [] n = 1 -> "1" [] n = 2 -> "2" [] n = 3 -> "3"
      [] n = 4 -> "4" [] n = 5 -> "5" [] n = 6 -> "6" [] n = 7 -> "7"
      [] n = 8 -> "8" [] n = 9 -> "9"

\* byte value of a character: the order std::map<std::string, ...> sorts keys by
Code(c) ==
    CASE c = NUL -> 0
      [] c = "#" -> 35 [] c = "$" -> 36 [] c = "," -> 44 [] c = "-" -> 45
      [] c = "." -> 46 [] c \in Digits -> 48 + DigitVal(c)
      [] c = ":" -> 58 [] c = "[" -> 91 [] c = "]" -> 93
      [] c = "a" -> 97 [] c = "b" -> 98 [] c = "c" -> 99 [] c = "d" -> 100
      [] c = "e" -> 101 [] c = "k" -> 107 [] c = "m" -> 109 [] c = "p" -> 112
      [] c = "t" -> 116 [] c = "w" -> 119 [] c = "x" -> 120 [] c = "y" -> 121
      [] c = "z" -> 122 [] c = "|" -> 124

Min(S) == CHOOSE x \in S : \A y \in S : x <= y

(* ------------------------------------------------------------------ *)
(* std::string primitives.                                             *)
(* ------------------------------------------------------------------ *)

\* whether pat occurs in s at index i (1-based)
OccursAt(s, pat, i) ==
    /\ i >= 1
    /\ i + Len(pat) - 1 <= Len(s)
    /\ SubSeq(s, i, i + Len(pat) - 1) = pat

\* std::string::find(pat, from): first index >= from, 0 for npos
Find(s, pat, from) ==
    LET hits == {i \in from..(Len(s) - Len(pat) + 1) : OccursAt(s, pat, i)}
    IN  IF hits = {} THEN 0 ELSE Min(hits)

Contains(s, pat) == Find(s, pat, 1) # 0

\* std::string::replace(pos, len, with)
Replace(s, pos, len, with) ==
    SubSeq(s, 1, pos - 1) \o with \o SubSeq(s, pos + len, Len(s))

\* std::string operator< : bytewise lexicographic
RECURSIVE LexLess(_, _)
LexLess(s, t) ==
    IF t = <<>> THEN FALSE
    ELSE IF s = <<>> THEN TRUE
    ELSE IF Code(Head(s)) # Code(Head(t)) THEN Code(Head(s)) < Code(Head(t))
    ELSE LexLess(Tail(s), Tail(t))

\* Common::ReplaceAll: every occurrence of src, left to right, resuming after
\* the inserted text
RECURSIVE ReplaceAll(_, _, _)
ReplaceAll(s, src, dest) ==
    LET pos == Find(s, src, 1)
    IN  IF src = dest \/ pos = 0 THEN s
        ELSE SubSeq(s, 1, pos - 1) \o dest
             \o ReplaceAll(SubSeq(s, pos + Len(src), Len(s)), src, dest)

\* Common::SplitString: the fields between occurrences of delim, empty ones kept
RECURSIVE SplitString(_, _)
SplitString(s, delim) ==
    LET pos == Find(s, <<delim>>, 1)
    IN  IF pos = 0 THEN <<s>>
        ELSE <<SubSeq(s, 1, pos - 1)>> \o SplitString(SubSeq(s, pos + 1, Len(s)), delim)

\* fmt::join(items, sep)
RECURSIVE Join(_, _)
Join(items, sep) ==
    IF items = <<>> THEN <<>>
    ELSE IF Len(items) = 1 THEN items[1]
    ELSE items[1] \o sep \o Join(Tail(items), sep)

\* fmt::format("[{}]", inner)
Bracket(inner) == <<"[">> \o inner \o <<"]">>

(* ------------------------------------------------------------------ *)
(* Numeric text conversions of the standard library and of fmt.        *)
(* A float is held in millionths, the precision std::to_string prints. *)
(* ------------------------------------------------------------------ *)

INT_MAX == 2147483647
FloatUnit == 1000000

RECURSIVE NatToString(_)
NatToString(n) ==
    IF n < 10 THEN <<DigitChar(n)>>
    ELSE NatToString(n \div 10) \o <<DigitChar(n % 10)>>

\* std::to_string(int), and fmt's "{}" of an int
IntToString(n) == IF n < 0 THEN <<"-">> \o NatToString(-n) ELSE NatToString(n)

\* the longest run of digits s starts with
RECURSIVE DigitPrefix(_)
DigitPrefix(s) ==
    IF s # <<>> /\ Head(s) \in Digits THEN <<Head(s)>> \o DigitPrefix(Tail(s))
    ELSE <<>>

RECURSIVE DigitsValue(_, _)
DigitsValue(ds, acc) ==
    IF ds = <<>> THEN acc ELSE DigitsValue(Tail(ds), acc * 10 + DigitVal(Head(ds)))

HasSign(s) == s # <<>> /\ Head(s) \in {"-", "+"}

RECURSIVE StripZeros(_)
StripZeros(ds) ==
    IF Len(ds) > 1 /\ Head(ds) = "0" THEN StripZeros(Tail(ds)) ELSE ds

\* whether the digits ds, read as a number, exceed the digits of limit
Exceeds(ds, limit) ==
    LET sig == StripZeros(ds)
    IN  Len(sig) > Len(limit) \/ (Len(sig) = Len(limit) /\ LexLess(limit, sig))

\* std::stoi: optional sign, then the longest digit prefix; ok is FALSE where it
\* throws std::invalid_argument (no digit) or std::out_of_range
Stoi(s) ==
    LET body == IF HasSign(s) THEN Tail(s) ELSE s
        ds   == DigitPrefix(body)
        neg  == HasSign(s) /\ Head(s) = "-"
        mag  == DigitsValue(ds, 0)
    IN  IF ds = <<>> THEN [ok |-> FALSE, val |-> 0]
        ELSE IF Exceeds(ds, NatToString(INT_MAX)) THEN [ok |-> FALSE, val |-> 0]
        ELSE [ok |-> TRUE, val |-> IF neg THEN -mag ELSE mag]

\* the first six fraction digits, zero-padded, as a number of millionths
FractionValue(fs) ==
    LET six == [i \in 1..6 |-> IF i <= Len(fs) THEN fs[i] ELSE "0"]
    IN  DigitsValue(six, 0)

\* std::stof on decimal text: optional sign, digits, optional '.' and digits; ok is
\* FALSE where it throws std::invalid_argument
Stof(s) ==
    LET body  == IF HasSign(s) THEN Tail(s) ELSE s
        ip    == DigitPrefix(body)
        rest  == SubSeq(body, Len(ip) + 1, Len(body))
        fp    == IF rest # <<>> /\ Head(rest) = "." THEN DigitPrefix(Tail(rest)) ELSE <<>>
        mag   == DigitsValue(ip, 0) * FloatUnit + FractionValue(fp)
        neg   == HasSign(s) /\ Head(s) = "-"
    IN  IF ip = <<>> /\ fp = <<>> THEN [ok |-> FALSE, val |-> 0]
        ELSE [ok |-> TRUE, val |-> IF neg THEN -mag ELSE mag]

SixDigits(n) ==
    [i \in 1..6 |-> DigitChar((n \div (10 ^ (6 - i))) % 10)]

\* std::to_string(float): "%f", six fraction digits
FloatToString(m) ==
    LET mag == IF m < 0 THEN -m ELSE m
    IN  (IF m < 0 THEN <<"-">> ELSE <<>>)
        \o NatToString(mag \div FloatUnit) \o <<".">> \o SixDigits(mag % FloatUnit)

RECURSIVE TrimZeros(_)
TrimZeros(s) ==
    IF s # <<>> /\ s[Len(s)] = "0" THEN TrimZeros(SubSeq(s, 1, Len(s) - 1)) ELSE s

\* fmt's "{}" of a float with a fraction part: the shortest text that reads back
FmtFloat(m) ==
    LET mag == IF m < 0 THEN -m ELSE m
    IN  (IF m < 0 THEN <<"-">> ELSE <<>>)
        \o NatToString(mag \div FloatUnit) \o <<".">> \o TrimZeros(SixDigits(mag % FloatUnit))

(* ------------------------------------------------------------------ *)
(* The container: a map from key text to value text (std::map).        *)
(* ------------------------------------------------------------------ *)

EmptyData == [k \in {} |-> <<>>]

\* std::map::insert_or_assign
InsertOrAssign(d, key, value) ==
    [k \in DOMAIN d \cup {key} |-> IF k = key THEN value ELSE d[k]]

\* std::map::erase(key)
EraseKey(d, key) == [k \in DOMAIN d \ {key} |-> d[k]]

\* the keys of a std::map in iteration order
RECURSIVE SortedKeys(_)
SortedKeys(S) ==
    IF S = {} THEN <<>>
    ELSE LET first == CHOOSE k \in S : \A j \in S : j = k \/ LexLess(k, j)
         IN  <<first>> \o SortedKeys(S \ {first})

\* how a read of freed or overwritten storage, or front() of an empty string, turns
\* out: the bytes are still the old ones, the bytes are what the buffer holds now,
\* or the build traps
UBChoices == {"intact", "stale", "fault"}

(* ------------------------------------------------------------------ *)
(* Placeholder extraction and restoration.                             *)
(* ------------------------------------------------------------------ *)

\* first index >= from of a '[' or ']', 0 if none
FirstBracket(s, from) ==
    LET hits == {i \in from..Len(s) : s[i] \in {"[", "]"}}
    IN  IF hits = {} THEN 0 ELSE Min(hits)

\* LIST_MATCH = \[(?:\[??[^\[]*?\]) anchored at i: the index of the closing ']' of
\* the match, 0 if there is none.  '[', lazily at most one more '[', then the
\* shortest run without '[' up to a ']'.
ListMatchEnd(s, i) ==
    LET fa == FirstBracket(s, i + 1)
        fb == FirstBracket(s, i + 2)
    IN  IF i > Len(s) \/ s[i] # "[" THEN 0
        ELSE IF fa # 0 /\ s[fa] = "]" THEN fa
        ELSE IF i + 1 <= Len(s) /\ s[i + 1] = "[" /\ fb # 0 /\ s[fb] = "]" THEN fb
        ELSE 0

\* std::regex_search(s, m, LIST_MATCH): start of the leftmost match, 0 if none
ListMatchStart(s) ==
    LET hits == {i \in 1..Len(s) : ListMatchEnd(s, i) # 0}
    IN  IF hits = {} THEN 0 ELSE Min(hits)

\* x.str() evaluated after s.replace(): the sub_match still points at the bytes
\* pos .. pos+len-1 of the buffer, which now holds `after`, its terminator, and
\* beyond that what is left of `before`
StaleRead(before, after, pos, len) ==
    [p \in 1..len |->
        LET q == pos + p - 1
        IN  IF q <= Len(after) THEN after[q]
            ELSE IF q = Len(after) + 1 THEN NUL
            ELSE before[q]]

\* ParamPackage::PlaceholderifyData: [status, s, lookup]
RECURSIVE PlaceholderifyData(_, _, _)
PlaceholderifyData(s, lookup, ub) ==
    LET i     == ListMatchStart(s)
        x     == SubSeq(s, i, ListMatchEnd(s, i))
        pos   == Find(s, x, 1)
        after == Replace(s, pos, Len(x), <<"#", "#">> \o NatToString(Len(lookup)))
        entry == IF ub = "intact" THEN x ELSE StaleRead(s, after, pos, Len(x))
    IN  IF i = 0 THEN [status |-> "ok", s |-> s, lookup |-> lookup]
        ELSE IF ub = "fault" THEN [status |-> "fault", s |-> after, lookup |-> lookup]
        ELSE PlaceholderifyData(after, Append(lookup, entry), ub)

\* std::regex_search(str, m, ##([\d]+)): start of the leftmost match, 0 if none
TokenStart(s) ==
    LET hits == {i \in 1..(Len(s) - 2) :
                    s[i] = "#" /\ s[i + 1] = "#" /\ s[i + 2] \in Digits}
    IN  IF hits = {} THEN 0 ELSE Min(hits)

\* the body of the loop over the sub-matches of m, for one sub-match x:
\* str.replace(str.find("##" + x), 2 + x.length(), lookup[std::stoi(x)])
ReplaceSubMatch(str, lookup, x) ==
    LET n   == Stoi(x)
        pos == Find(str, <<"#", "#">> \o x, 1)
    IN  IF ~n.ok THEN [status |-> "throw", str |-> str]
        ELSE IF n.val < 0 \/ n.val >= Len(lookup) THEN [status |-> "fault", str |-> str]
        ELSE IF pos = 0 THEN [status |-> "throw", str |-> str]
        ELSE [status |-> "ok", str |-> Replace(str, pos, 2 + Len(x), lookup[n.val + 1])]

\* ParamPackage::ReplacePlaceholders: [status, str].  The loop visits m[0], the whole
\* match "##N", before m[1], the digits.
RECURSIVE ReplacePlaceholders(_, _)
ReplacePlaceholders(str, lookup) ==
    LET i    == TokenStart(str)
        m1   == DigitPrefix(SubSeq(str, i + 2, Len(str)))
        m0   == <<"#", "#">> \o m1
        r0   == ReplaceSubMatch(str, lookup, m0)
        r1   == ReplaceSubMatch(r0.str, lookup, m1)
    IN  IF i = 0 THEN [status |-> "ok", str |-> str]
        ELSE IF r0.status # "ok" THEN r0
        ELSE IF r1.status # "ok" THEN r1
        ELSE ReplacePlaceholders(r1.str, lookup)

(* ------------------------------------------------------------------ *)
(* Construction from serialized text, and Serialize.                   *)
(* ------------------------------------------------------------------ *)

\* the three ReplaceAll calls that decode one part of a pair
UnescapePart(part) ==
    ReplaceAll(
        ReplaceAll(
            ReplaceAll(part, KEY_VALUE_SEPARATOR_ESCAPE, <<KEY_VALUE_SEPARATOR>>),
            PARAM_SEPARATOR_ESCAPE, <<PARAM_SEPARATOR>>),
        ESCAPE_CHARACTER_ESCAPE, <<ESCAPE_CHARACTER>>)

\* the three ReplaceAll calls that encode one part of a pair
EscapePart(part) ==
    ReplaceAll(
        ReplaceAll(
            ReplaceAll(part, <<ESCAPE_CHARACTER>>, ESCAPE_CHARACTER_ESCAPE),
            <<PARAM_SEPARATOR>>, PARAM_SEPARATOR_ESCAPE),
        <<KEY_VALUE_SEPARATOR>>, KEY_VALUE_SEPARATOR_ESCAPE)

\* InsertPair with the size test weakened to "fewer than two parts": a pair with
\* more than one ':' is inserted under its first two parts
InsertPairLoose(d, pair) ==
    LET key_value == SplitString(pair, KEY_VALUE_SEPARATOR)
    IN  IF Len(key_value) < 2 THEN d
        ELSE InsertOrAssign(d, UnescapePart(key_value[1]), UnescapePart(key_value[2]))

\* one pass of the loop over pairs: a pair that does not split in two is skipped
InsertPair(d, pair) ==
    LET key_value == SplitString(pair, KEY_VALUE_SEPARATOR)
    IN  IF Len(key_value) # 2 THEN d
        ELSE InsertOrAssign(d, UnescapePart(key_value[1]), UnescapePart(key_value[2]))

\* the loop over pairs, from pair i on
RECURSIVE InsertPairs(_, _, _)
InsertPairs(d, pairs, i) ==
    IF i > Len(pairs) THEN d
    ELSE InsertPairs(InsertPair(d, pairs[i]), pairs, i + 1)

\* the outcome of the loop that restores the placeholders of every stored value,
\* r[k] being what ReplacePlaceholders made of the value of k: the map runs in key
\* order and the first failure ends it
Restored(r) ==
    IF \A k \in DOMAIN r : r[k].status = "ok"
    THEN [status |-> "ok", data |-> [k \in DOMAIN r |-> r[k].str]]
    ELSE [status |-> r[SortedKeys({k \in DOMAIN r : r[k].status # "ok"})[1]].status,
          data |-> EmptyData]

RestoreAll(d, lookup) ==
    Restored([k \in DOMAIN d |-> ReplacePlaceholders(d[k], lookup)])

\* the constructor from the placeholderified text on: split, insert, restore
ParamPackageFrom(ph) ==
    IF ph.status # "ok" THEN [status |-> ph.status, data |-> EmptyData]
    ELSE RestoreAll(
            InsertPairs(EmptyData, SplitString(ph.s, PARAM_SEPARATOR), 1),
            ph.lookup)

\* ParamPackage::ParamPackage(const std::string&): [status, data]
ParamPackageOf(serialized, ub) ==
    IF serialized = EMPTY_PLACEHOLDER THEN [status |-> "ok", data |-> EmptyData]
    ELSE ParamPackageFrom(PlaceholderifyData(serialized, <<>>, ub))

\* what one pair contributes to the text
SerializePair(key, value) ==
    EscapePart(key) \o <<KEY_VALUE_SEPARATOR>> \o EscapePart(value) \o <<PARAM_SEPARATOR>>

RECURSIVE SerializePairs(_, _)
SerializePairs(d, keys) ==
    IF keys = <<>> THEN <<>>
    ELSE SerializePair(keys[1], d[keys[1]]) \o SerializePairs(d, Tail(keys))

\* Serialize without the test for the empty map: the empty text for no pairs
SerializeNoSentinel(d) ==
    LET result == SerializePairs(d, SortedKeys(DOMAIN d))
    IN  SubSeq(result, 1, Len(result) - 1)

\* ParamPackage::Serialize
Serialize(d) ==
    LET result == SerializePairs(d, SortedKeys(DOMAIN d))
    IN  IF DOMAIN d = {} THEN EMPTY_PLACEHOLDER
        ELSE SubSeq(result, 1, Len(result) - 1)

(* ------------------------------------------------------------------ *)
(* Getters: each yields [status, value].                               *)
(* ------------------------------------------------------------------ *)

Ok(v) == [status |-> "ok", value |-> v]
Failed(how, v) == [status |-> how, value |-> v]

\* front() == '[' && back() == ']' on a stored value: "yes", "no", or "fault".
\* front() of an empty string is undefined: the terminator is read, or the build traps.
BracketCheck(v, ub) ==
    IF v = <<>> THEN (IF ub = "fault" THEN "fault" ELSE "no")
    ELSE IF Head(v) = "[" /\ v[Len(v)] = "]" THEN "yes"
    ELSE "no"

\* Inner with the count one too long, substr(1, size() - 1): the closing bracket stays
InnerKeepsClosing(v) == SubSeq(v, 2, Len(v))

\* substr(1, size() - 2)
Inner(v) == SubSeq(v, 2, Len(v) - 1)

\* Get(key, const std::string&)
GetString(d, key, default_value) ==
    IF key \notin DOMAIN d THEN Ok(default_value) ELSE Ok(d[key])

\* a getter that needs a bracketed value: the default (or the fault) otherwise
IfBracketed(chk, default_value, result) ==
    IF chk = "fault" THEN Failed("fault", default_value)
    ELSE IF chk = "no" THEN Ok(default_value)
    ELSE result

\* Get(key, const std::vector<std::string>&)
GetStringList(d, key, default_value, ub) ==
    IF key \notin DOMAIN d THEN Ok(default_value)
    ELSE IfBracketed(BracketCheck(d[key], ub), default_value,
            Ok(SplitString(Inner(d[key]), LIST_SEPARATOR)))

\* Get(key, int)
GetInt(d, key, default_value) ==
    IF key \notin DOMAIN d THEN Ok(default_value)
    ELSE IF Stoi(d[key]).ok THEN Ok(Stoi(d[key]).val)
    ELSE Ok(default_value)

\* the numbers of a list of texts, or the default if one of them does not parse
ParsedList(vec, default_value) ==
    IF \E i \in 1..Len(vec) : ~vec[i].ok THEN Ok(default_value)
    ELSE Ok([i \in 1..Len(vec) |-> vec[i].val])

\* the list-of-int getter from the list of strings on
IntListOf(vec0, default_value) ==
    IF vec0.status # "ok" THEN Failed(vec0.status, default_value)
    ELSE IF vec0.value = <<>> THEN Ok(default_value)
    ELSE ParsedList([i \in 1..Len(vec0.value) |-> Stoi(vec0.value[i])], default_value)

\* Get(key, const std::vector<int>&)
GetIntList(d, key, default_value, ub) ==
    IntListOf(GetStringList(d, key, <<>>, ub), default_value)

\* Get(key, float)
GetFloat(d, key, default_value) ==
    IF key \notin DOMAIN d THEN Ok(default_value)
    ELSE IF Stof(d[key]).ok THEN Ok(Stof(d[key]).val)
    ELSE Ok(default_value)

\* the list-of-float getter from the list of strings on
FloatListOf(vec0, default_value) ==
    IF vec0.status # "ok" THEN Failed(vec0.status, default_value)
    ELSE IF vec0.value = <<>> THEN Ok(default_value)
    ELSE ParsedList([i \in 1..Len(vec0.value) |-> Stof(vec0.value[i])], default_value)

\* Get(key, const std::vector<float>&)
GetFloatList(d, key, default_value, ub) ==
    FloatListOf(GetStringList(d, key, <<>>, ub), default_value)

\* what a getter returns for a constructed container
Constructed(pack, default_value) ==
    IF pack.status # "ok" THEN Failed(pack.status, default_value) ELSE Ok(pack.data)

\* the nested-container getter once the value is known to be bracketed: ph is the
\* placeholderified inner text val, checked for its outer layer only
PackageOfInner(val, ph, default_value, ub) ==
    IF ph.status # "ok" THEN Failed(ph.status, default_value)
    ELSE IF Contains(ph.s, <<LIST_SEPARATOR>>) THEN Ok(default_value)
    ELSE IF ~Contains(ph.s, <<PARAM_SEPARATOR>>) THEN Ok(default_value)
    ELSE Constructed(ParamPackageOf(val, ub), default_value)

\* Get(key, const ParamPackage&)
GetPackage(d, key, default_value, ub) ==
    IF key \notin DOMAIN d THEN Ok(default_value)
    ELSE IfBracketed(BracketCheck(d[key], ub), default_value,
            PackageOfInner(Inner(d[key]),
                           PlaceholderifyData(Inner(d[key]), <<>>, ub),
                           default_value, ub))

\* the first element of a list of outcomes that failed, as the getter's failure
FirstFailure(r, default_value) ==
    Failed(r[Min({i \in 1..Len(r) : r[i].status # "ok"})].status, default_value)

\* the std::transform that constructs one container per element
TransformPackages(packs, default_value) ==
    IF \E i \in 1..Len(packs) : packs[i].status # "ok"
    THEN FirstFailure(packs, default_value)
    ELSE Ok([i \in 1..Len(packs) |-> packs[i].data])

\* the std::for_each that restores the placeholders of every element, r[i] being
\* what ReplacePlaceholders made of element i
ForEachRestored(r, default_value, ub) ==
    IF \E i \in 1..Len(r) : r[i].status # "ok" THEN FirstFailure(r, default_value)
    ELSE TransformPackages([i \in 1..Len(r) |-> ParamPackageOf(r[i].str, ub)],
                           default_value)

\* the for_each and the transform at the end of the list-of-package getter
PackagesOf(vec, lookup, default_value, ub) ==
    ForEachRestored([i \in 1..Len(vec) |-> ReplacePlaceholders(vec[i], lookup)],
                    default_value, ub)

\* the list-of-package getter once the value is known to be bracketed: ph is the
\* placeholderified inner text
PackageListOfInner(ph, default_value, ub) ==
    IF ph.status # "ok" THEN Failed(ph.status, default_value)
    ELSE IF ~Contains(ph.s, <<PARAM_SEPARATOR>>) THEN Ok(default_value)
    ELSE PackagesOf(SplitString(ph.s, LIST_SEPARATOR), ph.lookup, default_value, ub)

\* Get(key, const std::vector<ParamPackage>&)
GetPackageList(d, key, default_value, ub) ==
    IF key \notin DOMAIN d THEN Ok(default_value)
    ELSE IfBracketed(BracketCheck(d[key], ub), default_value,
            PackageListOfInner(PlaceholderifyData(Inner(d[key]), <<>>, ub),
                               default_value, ub))

(* ------------------------------------------------------------------ *)
(* Setters: the text each overload stores.                             *)
(* ------------------------------------------------------------------ *)

\* Set(key, std::vector<std::string>)
StoredStringList(value) == Bracket(Join(value, <<LIST_SEPARATOR>>))

\* Set(key, int)
StoredInt(value) == IntToString(value)

\* Set(key, std::vector<int>)
StoredIntList(value) ==
    Bracket(Join([i \in 1..Len(value) |-> IntToString(value[i])], <<LIST_SEPARATOR>>))

\* Set(key, float)
StoredFloat(value) == FloatToString(value)

\* Set(key, std::vector<float>)
StoredFloatList(value) ==
    Bracket(Join([i \in 1..Len(value) |-> FmtFloat(value[i])], <<LIST_SEPARATOR>>))

\* Set(key, ParamPackage)
StoredPackage(value) == Serialize(value)

\* Set(key, std::vector<ParamPackage>)
StoredPackageList(value) ==
    Bracket(Join([i \in 1..Len(value) |-> Serialize(value[i])], <<LIST_SEPARATOR>>))

(* ------------------------------------------------------------------ *)
(* The inputs the operations are driven with.                          *)
(* ------------------------------------------------------------------ *)

SeqsUpTo(S, n) == UNION {[1..m -> S] : m \in 0..n}

KeyA == <<"a">>
KeyB == <<"b">>
Keys == {KeyA, KeyB}

\* "", "x:y,z$w", "##0", "7a"
StringValues ==
    { <<>>, <<"x", ":", "y", ",", "z", "$", "w">>, <<"#", "#", "0">>, <<"7", "a">> }

\* "", "a", "b,"
ListItems == { <<>>, <<"a">>, <<"b", ",">> }
StringLists == SeqsUpTo(ListItems, MaxItems)

IntValues == {-1, 7}
IntLists == SeqsUpTo({7}, MaxItems)

\* 1.5 and -0.25
FloatValues == {1500000, -250000}
FloatLists == SeqsUpTo({1500000}, MaxItems)

\* {a: "7", b: ","} and {a: "##0", b: "7"}
PackPlain == [k \in Keys |-> IF k = KeyA THEN <<"7">> ELSE <<",">>]
PackToken == [k \in Keys |-> IF k = KeyA THEN <<"#", "#", "0">> ELSE <<"7">>]
Packages == {PackPlain, PackToken}
PackageLists == SeqsUpTo(Packages, MaxItems)

\* the defaults handed to the getters
StringDefaults == { <<"d">> }
StringListDefaults == { << <<"d">> >> }
IntDefaults == {5}
IntListDefaults == { <<5>> }
FloatDefaults == {5000000}
FloatListDefaults == { <<5000000>> }
DefaultPackage == [k \in { <<"d">> } |-> <<"d">>]
PackageDefaults == {DefaultPackage}
PackageListDefaults == { <<DefaultPackage>> }

\* "[empty]", "a:7,b", "b:[a]"
ConstructTexts ==
    { EMPTY_PLACEHOLDER, <<"a", ":", "7", ",", "b">>, <<"b", ":", "[", "a", "]">> }

\* initializer lists of (key, value) pairs
InitializerLists ==
    { <<>>, << <<KeyA, <<"7">> >>, <<KeyB, <<>> >>, <<KeyA, <<"a">> >> >> }

\* the texts construction is checked on: every text over Alphabet up to MaxLen,
\* the texts of up to MaxPairs fragments joined by ',', and the worked examples
Alphabet == {"a", ":", ",", "$", "[", "]", "#", "0"}

\* "a:1", "bad", "c:3", "k:[a]", "a:$0"
PairFragments ==
    { <<"a", ":", "1">>, <<"b", "a", "d">>, <<"c", ":", "3">>,
      <<"k", ":", "[", "a", "]">>, <<"a", ":", "$", "0">> }

ComposedTexts ==
    {Join(ps, <<PARAM_SEPARATOR>>) : ps \in SeqsUpTo(PairFragments, MaxPairs) \ {<<>>}}

\* "a:1,bad,c:3"
MalformedExample ==
    <<"a", ":", "1", ",", "b", "a", "d", ",", "c", ":", "3">>
\* "k:[a|[b,c]]"
NestedExample ==
    <<"k", ":", "[", "a", "|", "[", "b", ",", "c", "]", "]">>
\* "k:[a],b:[a]"
RepeatedExample ==
    <<"k", ":", "[", "a", "]", ",", "b", ":", "[", "a", "]">>

Texts ==
    SeqsUpTo(Alphabet, MaxLen) \cup ComposedTexts
        \cup {MalformedExample, NestedExample, RepeatedExample, EMPTY_PLACEHOLDER}

(* ------------------------------------------------------------------ *)
(* State: the container under test (data), the last call and what it   *)
(* gave back (ret), the typed value last stored under each key by a    *)
(* Set overload (written), and the text a decode run starts from       *)
(* (input).                                                            *)
(* ------------------------------------------------------------------ *)

Called(op, key, r) == [op |-> op, key |-> key, status |-> r.status, value |-> r.value]

\* a const member function: only its result is new
Observe(r) == ret' = r /\ UNCHANGED <<data, written, input>>

\* a Set overload: the text goes into the map
Store(op, key, text, value) ==
    /\ data' = InsertOrAssign(data, key, text)
    /\ written' = InsertOrAssign(written, key, [kind |-> op, value |-> value])
    /\ ret' = [op |-> op, key |-> key, status |-> "ok", value |-> text]
    /\ UNCHANGED input

Init ==
    /\ data = EmptyData
    /\ written = EmptyData
    /\ ret = [op |-> "ParamPackage", key |-> <<>>, status |-> "ok", value |-> <<>>]
    /\ input = <<>>

\* p = ParamPackage(text): on a throw or a fault no container is produced
Assign(op, text, before, r) ==
    /\ data' = IF r.status = "ok" THEN r.data ELSE data
    /\ written' = IF r.status = "ok" THEN EmptyData ELSE written
    /\ ret' = [op |-> op, key |-> <<>>, text |-> text, before |-> before,
               status |-> r.status, value |-> r.data]
    /\ UNCHANGED input

Construct(text, ub) ==
    Assign("ParamPackage(text)", text, EmptyData, ParamPackageOf(text, ub))

ConstructFromText == \E text \in ConstructTexts, ub \in UBChoices : Construct(text, ub)

\* ParamPackage(std::initializer_list): std::map keeps the first pair of a key
RECURSIVE MapOfList(_, _)
MapOfList(d, list) ==
    IF list = <<>> THEN d
    ELSE MapOfList(IF list[1][1] \in DOMAIN d THEN d
                   ELSE InsertOrAssign(d, list[1][1], list[1][2]),
                   Tail(list))

ConstructFromList ==
    \E list \in InitializerLists :
        /\ data' = MapOfList(EmptyData, list)
        /\ written' = EmptyData
        /\ ret' = [op |-> "ParamPackage(list)", key |-> <<>>, status |-> "ok",
                   value |-> <<>>]
        /\ UNCHANGED input

SetString ==
    \E key \in Keys, value \in StringValues : Store("SetString", key, value, value)

SetStringList ==
    \E key \in Keys, value \in StringLists :
        Store("SetStringList", key, StoredStringList(value), value)

SetInt ==
    \E key \in Keys, value \in IntValues : Store("SetInt", key, StoredInt(value), value)

SetIntList ==
    \E key \in Keys, value \in IntLists :
        Store("SetIntList", key, StoredIntList(value), value)

SetFloat ==
    \E key \in Keys, value \in FloatValues :
        Store("SetFloat", key, StoredFloat(value), value)

SetFloatList ==
    \E key \in Keys, value \in FloatLists :
        Store("SetFloatList", key, StoredFloatList(value), value)

SetPackage ==
    \E key \in Keys, value \in Packages :
        Store("SetPackage", key, StoredPackage(value), value)

SetPackageList ==
    \E key \in Keys, value \in PackageLists :
        Store("SetPackageList", key, StoredPackageList(value), value)

Erase ==
    \E key \in Keys :
        /\ data' = EraseKey(data, key)
        /\ written' = EraseKey(written, key)
        /\ ret' = [op |-> "Erase", key |-> key, status |-> "ok", value |-> <<>>]
        /\ UNCHANGED input

Clear ==
    /\ data' = EmptyData
    /\ written' = EmptyData
    /\ ret' = [op |-> "Clear", key |-> <<>>, status |-> "ok", value |-> <<>>]
    /\ UNCHANGED input

Has == \E key \in Keys : Observe(Called("Has", key, Ok(key \in DOMAIN data)))

DoSerialize == Observe(Called("Serialize", <<>>, Ok(Serialize(data))))

\* q = ParamPackage(p.Serialize()), the container read back from its own text
Reloaded(text, ub) == Assign("Reload", text, data, ParamPackageOf(text, ub))

Reload == \E ub \in UBChoices : Reloaded(Serialize(data), ub)

DoGetString ==
    \E key \in Keys, def \in StringDefaults :
        Observe(Called("GetString", key, GetString(data, key, def)))

DoGetStringList ==
    \E key \in Keys, def \in StringListDefaults, ub \in UBChoices :
        Observe(Called("GetStringList", key, GetStringList(data, key, def, ub)))

DoGetInt ==
    \E key \in Keys, def \in IntDefaults :
        Observe(Called("GetInt", key, GetInt(data, key, def)))

DoGetIntList ==
    \E key \in Keys, def \in IntListDefaults, ub \in UBChoices :
        Observe(Called("GetIntList", key, GetIntList(data, key, def, ub)))

DoGetFloat ==
    \E key \in Keys, def \in FloatDefaults :
        Observe(Called("GetFloat", key, GetFloat(data, key, def)))

DoGetFloatList ==
    \E key \in Keys, def \in FloatListDefaults, ub \in UBChoices :
        Observe(Called("GetFloatList", key, GetFloatList(data, key, def, ub)))

DoGetPackage ==
    \E key \in Keys, def \in PackageDefaults, ub \in UBChoices :
        Observe(Called("GetPackage", key, GetPackage(data, key, def, ub)))

DoGetPackageList ==
    \E key \in Keys, def \in PackageListDefaults, ub \in UBChoices :
        Observe(Called("GetPackageList", key, GetPackageList(data, key, def, ub)))

Next ==
    \/ ConstructFromText \/ ConstructFromList
    \/ SetString \/ SetStringList \/ SetInt \/ SetIntList
    \/ SetFloat \/ SetFloatList \/ SetPackage \/ SetPackageList
    \/ Erase \/ Clear \/ Has \/ DoSerialize \/ Reload
    \/ DoGetString \/ DoGetStringList \/ DoGetInt \/ DoGetIntList
    \/ DoGetFloat \/ DoGetFloatList \/ DoGetPackage \/ DoGetPackageList

Spec == Init /\ [][Next]_vars

(* Decoding one text: the run starts from any of Texts and constructs from it. *)

InitCodec ==
    /\ input \in Texts
    /\ data = EmptyData
    /\ written = EmptyData
    /\ ret = [op |-> "ParamPackage", key |-> <<>>, status |-> "ok", value |-> <<>>]

ConstructFromInput == \E ub \in UBChoices : Construct(input, ub)

NextCodec == ConstructFromInput \/ DoSerialize

SpecCodec == InitCodec /\ [][NextCodec]_vars

(* ------------------------------------------------------------------ *)
(* Properties.                                                         *)
(* ------------------------------------------------------------------ *)

ConstructedFromText == ret.op = "ParamPackage(text)"
Reloading == ret.op = "Reload"
\* the call did not end in a trap of the build (it returned, or it threw)
NoTrap == ret.status # "fault"
HasBracket(v) == Contains(v, <<"[">>) \/ Contains(v, <<"]">>)
\* the typed value a Set overload last stored under the key of the last call
WrittenBy(op) ==
    /\ ret.key \in DOMAIN written
    /\ written[ret.key].kind = op
LastWritten == written[ret.key].value

\* C1: a container holding one key k with a scalar value v (no bracket, so no
\* "[empty]" either) gives v back under k after Serialize and construction from
\* the serialized text.
C1_ScalarRoundTrip ==
    (Reloading /\ Cardinality(DOMAIN ret.before) = 1) =>
        \A k \in DOMAIN ret.before :
            ~HasBracket(ret.before[k]) =>
                /\ ret.status = "ok"
                /\ \A def \in StringDefaults :
                      GetString(ret.value, k, def).value = ret.before[k]

\* C2: a container built by Set calls, bracketed values included, is the same map
\* after Serialize and construction from the serialized text (checked on the values
\* without a literal '#', in the runs where the build does not trap).
C2_ContainerRoundTrip ==
    (Reloading /\ NoTrap
        /\ \A k \in DOMAIN ret.before : ~Contains(ret.before[k], <<"#">>)) =>
        /\ ret.status = "ok"
        /\ ret.value = ret.before

\* C3: Set(key, B) for a container B of two or more keys stores '[' + B.Serialize()
\* + ']', and Get(key, ParamPackage{}) then gives B back.
C3_NestedRoundTrip ==
    /\ (ret.op = "SetPackage" /\ Cardinality(DOMAIN LastWritten) >= 2) =>
            data[ret.key] = Bracket(Serialize(LastWritten))
    /\ (ret.op = "GetPackage" /\ WrittenBy("SetPackage") /\ NoTrap
            /\ Cardinality(DOMAIN LastWritten) >= 2) =>
            (ret.status = "ok" /\ ret.value = LastWritten)

\* C4: Set(key, L) for a list L of two or more distinct containers with scalar
\* keys and values, then Get(key, default list), gives the containers of L back in
\* order (in the runs where the build does not trap).
C4_PackageListRoundTrip ==
    (ret.op = "GetPackageList" /\ WrittenBy("SetPackageList") /\ NoTrap
        /\ Len(LastWritten) >= 2
        /\ \A i, j \in 1..Len(LastWritten) : i # j => LastWritten[i] # LastWritten[j]) =>
        (ret.status = "ok" /\ ret.value = LastWritten)

GetOps ==
    {"GetString", "GetStringList", "GetInt", "GetIntList", "GetFloat", "GetFloatList",
     "GetPackage", "GetPackageList"}

\* C6: every Get overload returns, without throwing or faulting, whatever the
\* container holds (a value that is the empty string included).
C6_GetIsTotal == ret.op \in GetOps => ret.status = "ok"

\* the pairs the constructor sees: the placeholderified text split on ','
MaskedPairs(text) ==
    SplitString(PlaceholderifyData(text, <<>>, "intact").s, PARAM_SEPARATOR)
WellFormed(pair) == Len(SplitString(pair, KEY_VALUE_SEPARATOR)) = 2
PairKey(pair) == UnescapePart(SplitString(pair, KEY_VALUE_SEPARATOR)[1])
PairValue(pair) == UnescapePart(SplitString(pair, KEY_VALUE_SEPARATOR)[2])

\* C7: a container constructed from text holds exactly the pairs that split on ':'
\* in two, each key with the value of its last such pair, whatever malformed
\* pairs stand between them; "a:1,bad,c:3" gives exactly a=1 and c=3; and text
\* without brackets or '#' always constructs.
C7_MalformedPairsSkipped ==
    (ConstructedFromText /\ input # EMPTY_PLACEHOLDER) =>
        LET pairs == MaskedPairs(input)
            good  == {i \in 1..Len(pairs) : WellFormed(pairs[i])}
        IN  /\ (~HasBracket(input) /\ ~Contains(input, <<"#">>)) => ret.status = "ok"
            /\ ret.status = "ok" =>
                /\ DOMAIN data = {PairKey(pairs[i]) : i \in good}
                /\ \A i \in good :
                      (\A j \in good : j > i => PairKey(pairs[j]) # PairKey(pairs[i]))
                          => data[PairKey(pairs[i])] = PairValue(pairs[i])
            /\ input = MalformedExample =>
                /\ DOMAIN data = { <<"a">>, <<"c">> }
                /\ data[<<"a">>] = <<"1">> /\ data[<<"c">>] = <<"3">>

C7_Witness ==
    /\ ConstructedFromText /\ input = MalformedExample /\ ret.status = "ok"
    /\ DOMAIN data = { <<"a">>, <<"c">> }

\* C8: Serialize() returns "[empty]" exactly when the container holds no key, after
\* any sequence of Set, Erase and Clear; a container constructed from "[empty]"
\* holds no key, and Has is false on a container without keys.
C8_EmptySentinel ==
    /\ ret.op = "Serialize" => (ret.value = EMPTY_PLACEHOLDER <=> DOMAIN data = {})
    /\ (ConstructedFromText /\ ret.text = EMPTY_PLACEHOLDER) =>
            (ret.status = "ok" /\ DOMAIN data = {})
    /\ (ret.op = "Has" /\ DOMAIN data = {}) => ret.value = FALSE
    /\ (ret.op \in {"Clear", "ParamPackage"}) => Serialize(data) = EMPTY_PLACEHOLDER

C8_Witness ==
    /\ ret.op = "Serialize" /\ ret.value = EMPTY_PLACEHOLDER
    /\ DOMAIN data = {}

\* C9: construction from text never throws to the caller, whatever the text.
C9_ConstructionNeverThrows == ConstructedFromText => ret.status # "throw"

\* C10: after construction from text whose values are bracketed, nested brackets
\* and repeated bracketed text included, each value is the bracketed text verbatim:
\* "k:[a|[b,c]]" gives Get("k", "") == "[a|[b,c]]", and "k:[a],b:[a]" gives "[a]"
\* under both keys (in the runs where the build does not trap).
C10_PlaceholdersRestored ==
    (ConstructedFromText /\ NoTrap) =>
        /\ input = NestedExample =>
              /\ ret.status = "ok"
              /\ \A def \in StringDefaults :
                    GetString(data, <<"k">>, def).value = SubSeq(NestedExample, 3, 11)
        /\ input = RepeatedExample =>
              /\ ret.status = "ok"
              /\ \A def \in StringDefaults :
                    /\ GetString(data, <<"k">>, def).value = <<"[", "a", "]">>
                    /\ GetString(data, <<"b">>, def).value = <<"[", "a", "]">>

====
